---- MODULE Spec2Model ----
(***************************************************************************)
(* Model of the dataset splitting (lab2/imgclf/dataset/dataset.py), the    *)
(* optimizer construction and the training epoch of the NFNet utilities    *)
(* (lab2/nfnet/nfnet_model_utils.py).                                      *)
(*                                                                         *)
(* A run of the model is one call of one operation: Init chooses the       *)
(* operation and its arguments, the actions execute it.                    *)
(*                                                                         *)
(* Ratios are exact rationals <<num, den>> with den > 0.  A data frame is  *)
(* the set of its row labels.                                              *)
(***************************************************************************)
EXTENDS Integers, Sequences, FiniteSets

VARIABLES pc, df, split_ratio, train_ratio, result,
          config, model, param_groups,
          num_batches, batch, is_nan, losses, log

vars == <<pc, df, split_ratio, train_ratio, result,
          config, model, param_groups,
          num_batches, batch, is_nan, losses, log>>

(* ---------------------------- bounds ----------------------------------- *)
\* largest number of rows of a data frame
MaxRows == 6
\* ratios are the multiples num/Den, num in -1 .. Den+1
Den == 5
\* number of named parameters of the network
NumParams == 3
\* largest number of batches the data loader delivers in an epoch
MaxBatches == 3

(* ------------------------ dataset.py ----------------------------------- *)
Rows(n) == 1 .. n

NoRatio == <<0, 1>>
NoResult == [exc |-> "none", built |-> 0, datasets |-> <<>>]

\* Python int(): truncation toward zero of the rational x / d, d > 0
IntTruncCeil(x, d) == -((-x) \div d)
IntTrunc(x, d) == IF x >= 0 THEN x \div d ELSE -((-x) \div d)

\* sklearn.model_selection.train_test_split(df, train_size = k, shuffle = True):
\* an integer train_size outside 0 < k < n is rejected with a ValueError;
\* otherwise k shuffled rows form the first frame and the other rows the second.
SklearnSplitKeepAll(frame, k) ==
    IF k <= 0 \/ k >= Cardinality(frame)
    THEN {[exc |-> "ValueError", first |-> {}, second |-> {}]}
    ELSE {[exc |-> "none", first |-> S, second |-> frame] :
             S \in {T \in SUBSET frame : Cardinality(T) = k}}
SklearnSplit(frame, k) ==
    IF k <= 0 \/ k >= Cardinality(frame)
    THEN {[exc |-> "ValueError", first |-> {}, second |-> {}]}
    ELSE {[exc |-> "none", first |-> S, second |-> frame \ S] :
             S \in {T \in SUBSET frame : Cardinality(T) = k}}

\* Dataset.train_test_split(df, train_ratio, config): the set of its outcomes
TrainTestSplit(frame, ratio) ==
    IF ~(ratio[1] < ratio[2])                       \* assert train_ratio < 1
    THEN {[exc |-> "AssertionError", built |-> 0, datasets |-> <<>>]}
    ELSE LET num_samples == Cardinality(frame)
             train_set_size == IntTrunc(num_samples * ratio[1], ratio[2])
         IN  {IF s.exc # "none"
              THEN [exc |-> s.exc, built |-> 0, datasets |-> <<>>]
              ELSE [exc |-> "none", built |-> 2,
                    datasets |-> <<s.first, s.second>>] :
                 s \in SklearnSplit(frame, train_set_size)}

\* valid_set_ratio = split_ratio[1] / (1 - split_ratio[0]), both over Den
ValidSetRatioUnscaled(ratio) == <<ratio[2], Den>>
ValidSetRatio(ratio) == <<ratio[2], Den - ratio[1]>>

\* Dataset.split(df, split_ratio, config): the set of its outcomes
SplitOutcomes(frame, ratio) ==
    IF ~(ratio[1] + ratio[2] <= Den)                \* assert sumation <= 1.0
    THEN {[exc |-> "AssertionError", built |-> 0, datasets |-> <<>>]}
    ELSE UNION {
           IF a.exc # "none" THEN {a}
           ELSE IF Den - ratio[1] = 0
           THEN {[exc |-> "ZeroDivisionError", built |-> 2, datasets |-> <<>>]}
           ELSE {IF b.exc # "none"
                 THEN [exc |-> b.exc, built |-> 2, datasets |-> <<>>]
                 ELSE [exc |-> "none", built |-> 4,
                       datasets |-> <<a.datasets[1], b.datasets[1], b.datasets[2]>>] :
                    b \in TrainTestSplit(a.datasets[2], ValidSetRatio(ratio))} :
           a \in TrainTestSplit(frame, <<ratio[1], Den>>)}

(* ------------------- nfnet_model_utils.py: optimizer ------------------- *)
Names == 1 .. NumParams

\* config.clipping = 0.1 and config.weight_decay = 0.00002, in units of 1e-5
Clipping == 10000
WeightDecay == 2
None == -1

NoConfig == [do_clip |-> TRUE, clipping |-> Clipping, weight_decay |-> WeightDecay]
NoModel == [exclude_from_clipping |-> [n \in Names |-> FALSE],
            exclude_from_weight_decay |-> [n \in Names |-> FALSE]]
NoGroups == <<>>

\* SGD_AGC(named_params, clipping = config.clipping, ...): one group per name
SGD_AGC(cfg) ==
    [n \in Names |-> [name |-> n, clipping |-> cfg.clipping,
                      weight_decay |-> cfg.weight_decay]]

(* ------------------- nfnet_model_utils.py: epoch ----------------------- *)
LossValues == {"finite", "inf", "nan"}

\* np.isnan(loss.item() * inputs.size(0)), inputs.size(0) >= 1
IsNan(loss) == loss = "nan"

(* ------------------------------ Init ----------------------------------- *)
RatioNums == -1 .. Den + 1

IdleSplit == /\ df = {} /\ split_ratio = NoRatio /\ train_ratio = NoRatio
             /\ result = NoResult
IdleOpt == config = NoConfig /\ model = NoModel /\ param_groups = NoGroups
IdleTrain == num_batches = 0 /\ batch = 0 /\ is_nan = FALSE
             /\ losses = <<>> /\ log = <<>>

InitSplit ==
    /\ pc = "split"
    /\ \E n \in 0 .. MaxRows : df = Rows(n)
    /\ \E r0 \in RatioNums, r1 \in RatioNums : split_ratio = <<r0, r1>>
    /\ train_ratio = NoRatio /\ result = NoResult
    /\ IdleOpt /\ IdleTrain

InitTrainTestSplit ==
    /\ pc = "train_test_split"
    /\ \E n \in 0 .. MaxRows : df = Rows(n)
    /\ \E p \in RatioNums, q \in 1 .. Den : train_ratio = <<p, q>>
    /\ split_ratio = NoRatio /\ result = NoResult
    /\ IdleOpt /\ IdleTrain

InitOptimizer ==
    /\ pc = "get_optimizer"
    /\ \E dc \in BOOLEAN :
         config = [do_clip |-> dc, clipping |-> Clipping, weight_decay |-> WeightDecay]
    /\ \E ec \in [Names -> BOOLEAN], ew \in [Names -> BOOLEAN] :
         model = [exclude_from_clipping |-> ec, exclude_from_weight_decay |-> ew]
    /\ param_groups = NoGroups
    /\ IdleSplit /\ IdleTrain

InitTrainEpoch ==
    /\ pc = "loop"
    /\ num_batches \in 0 .. MaxBatches
    /\ batch = 0 /\ is_nan = FALSE /\ losses = <<>> /\ log = <<>>
    /\ IdleSplit /\ IdleOpt

Init == InitSplit \/ InitTrainTestSplit \/ InitOptimizer \/ InitTrainEpoch

(* ----------------------------- actions --------------------------------- *)
UnchangedSplitArgs == UNCHANGED <<df, split_ratio, train_ratio>>
UnchangedOpt == UNCHANGED <<config, model, param_groups>>
UnchangedTrain == UNCHANGED <<num_batches, batch, is_nan, losses, log>>

split ==
    /\ pc = "split"
    /\ result' \in SplitOutcomes(df, split_ratio)
    /\ pc' = IF result'.exc = "none" THEN "split_returned" ELSE "split_raised"
    /\ UnchangedSplitArgs /\ UnchangedOpt /\ UnchangedTrain

train_test_split ==
    /\ pc = "train_test_split"
    /\ result' \in TrainTestSplit(df, train_ratio)
    /\ pc' = IF result'.exc = "none" THEN "tts_returned" ELSE "tts_raised"
    /\ UnchangedSplitArgs /\ UnchangedOpt /\ UnchangedTrain

\* what the loop of _get_optimizer leaves in one group
AdjustGroup(group) ==
    [name |-> group.name,
     weight_decay |-> IF model.exclude_from_weight_decay[group.name]
                      THEN 0 ELSE group.weight_decay,
     clipping |-> IF model.exclude_from_clipping[group.name]
                  THEN None ELSE group.clipping]

get_optimizer ==
    /\ pc = "get_optimizer"
    /\ param_groups' = [n \in Names |-> AdjustGroup(SGD_AGC(config)[n])]
    /\ pc' = "optimizer_returned"
    /\ UNCHANGED <<config, model>>
    /\ UNCHANGED <<df, split_ratio, train_ratio, result>> /\ UnchangedTrain

Emit(e) == log' = Append(log, <<batch, e>>)
UnchangedNonTrain == /\ UNCHANGED <<df, split_ratio, train_ratio, result>>
                     /\ UnchangedOpt

\* for inputs, targets in tqdm(dataloader): the next batch, or the end
NextBatch ==
    /\ pc = "loop" /\ batch < num_batches
    /\ batch' = batch + 1
    /\ pc' = "zero_grad"
    /\ UNCHANGED <<num_batches, is_nan, losses, log>> /\ UnchangedNonTrain

EpochEnd ==
    /\ pc = "loop" /\ batch = num_batches
    /\ pc' = "epoch_returned"
    /\ UNCHANGED <<num_batches, batch, is_nan, losses, log>> /\ UnchangedNonTrain

ZeroGrad ==
    /\ pc = "zero_grad"
    /\ Emit("zero_grad") /\ pc' = "forward"
    /\ UNCHANGED <<num_batches, batch, is_nan, losses>> /\ UnchangedNonTrain

Forward ==
    /\ pc = "forward"
    /\ Emit("forward") /\ pc' = "loss"
    /\ UNCHANGED <<num_batches, batch, is_nan, losses>> /\ UnchangedNonTrain

Loss ==
    /\ pc = "loss"
    /\ \E l \in LossValues : losses' = Append(losses, l)
    /\ Emit("loss") /\ pc' = "backward"
    /\ UNCHANGED <<num_batches, batch, is_nan>> /\ UnchangedNonTrain

Backward ==
    /\ pc = "backward"
    /\ Emit("backward") /\ pc' = "scaler_step"
    /\ UNCHANGED <<num_batches, batch, is_nan, losses>> /\ UnchangedNonTrain

ScalerStepSkipOnNan ==
    /\ pc = "scaler_step"
    /\ IF IsNan(losses[batch]) THEN log' = log ELSE Emit("scaler.step")
    /\ pc' = "scaler_update"
    /\ UNCHANGED <<num_batches, batch, is_nan, losses>> /\ UnchangedNonTrain
ScalerStep ==
    /\ pc = "scaler_step"
    /\ Emit("scaler.step") /\ pc' = "scaler_update"
    /\ UNCHANGED <<num_batches, batch, is_nan, losses>> /\ UnchangedNonTrain

ScalerUpdate ==
    /\ pc = "scaler_update"
    /\ Emit("scaler.update") /\ pc' = "account"
    /\ UNCHANGED <<num_batches, batch, is_nan, losses>> /\ UnchangedNonTrain

\* lines 118-128: the NaN bookkeeping and the running sums of one batch
AccountNoReset ==
    /\ pc = "account"
    /\ IF IsNan(losses[batch])
       THEN IF ~is_nan
            THEN is_nan' = TRUE /\ Emit("nan!")
            ELSE UNCHANGED <<is_nan, log>>
       ELSE IF is_nan
            THEN Emit("no longer nan") /\ is_nan' = is_nan
            ELSE UNCHANGED <<is_nan, log>>
    /\ pc' = "loop"
    /\ UNCHANGED <<num_batches, batch, losses>> /\ UnchangedNonTrain
Account ==
    /\ pc = "account"
    /\ IF IsNan(losses[batch])
       THEN IF ~is_nan
            THEN is_nan' = TRUE /\ Emit("nan!")
            ELSE UNCHANGED <<is_nan, log>>
       ELSE IF is_nan
            THEN Emit("no longer nan") /\ is_nan' = FALSE
            ELSE UNCHANGED <<is_nan, log>>
    /\ pc' = "loop"
    /\ UNCHANGED <<num_batches, batch, losses>> /\ UnchangedNonTrain

Next == \/ split
        \/ train_test_split
        \/ get_optimizer
        \/ NextBatch
        \/ EpochEnd
        \/ ZeroGrad
        \/ Forward
        \/ Loss
        \/ Backward
        \/ ScalerStep
        \/ ScalerUpdate
        \/ Account

Spec == Init /\ [][Next]_vars

(* --------------------------- properties -------------------------------- *)
Train == result.datasets[1]
Valid == result.datasets[2]
Test == result.datasets[3]
SumLeOne == split_ratio[1] + split_ratio[2] <= Den
SumLtOne == split_ratio[1] + split_ratio[2] < Den

\* C1: whenever Dataset.split returns, the train, validation and test row sets
\* are pairwise disjoint, their union is exactly the rows of df, and the three
\* lengths add up to len(df); the test set is what train and validation leave.
C1_SplitPartitions ==
    pc = "split_returned" =>
        /\ Train \cap Valid = {} /\ Train \cap Test = {} /\ Valid \cap Test = {}
        /\ Train \cup Valid \cup Test = df
        /\ Cardinality(Train) + Cardinality(Valid) + Cardinality(Test) = Cardinality(df)
        /\ Test = df \ (Train \cup Valid)

C1_Witness ==
    /\ pc = "split_returned" /\ Cardinality(df) >= 5
    /\ Cardinality(Train) >= 2 /\ Cardinality(Valid) >= 1 /\ Cardinality(Test) >= 1

\* C2: for every split_ratio = (r0, r1) with 0 < r0, 0 <= r1 and r0 + r1 <= 1
\* no assertion fails in split or in the train_test_split calls it makes, and
\* an AssertionError is raised only when r0 + r1 > 1.
C2_AssertOnlyWhenSumAboveOne ==
    (pc \in {"split_returned", "split_raised"}
         /\ split_ratio[1] > 0 /\ split_ratio[2] >= 0) =>
        (result.exc = "AssertionError" <=> ~SumLeOne)

\* C3: train_test_split with train_ratio >= 1 fails with an AssertionError
\* before any dataset is built; otherwise, when it returns, the first dataset
\* has exactly floor(n * train_ratio) rows and the second all the remaining
\* n - floor(n * train_ratio) rows.
C3_TrainTestSplitSizes ==
    LET n == Cardinality(df)
        fl == (n * train_ratio[1]) \div train_ratio[2]
    IN  /\ (pc \in {"tts_returned", "tts_raised"} /\ train_ratio[1] >= train_ratio[2])
               => (pc = "tts_raised" /\ result.exc = "AssertionError" /\ result.built = 0)
        /\ pc = "tts_returned" =>
               /\ train_ratio[1] < train_ratio[2]
               /\ Cardinality(result.datasets[1]) = fl
               /\ result.datasets[2] = df \ result.datasets[1]
               /\ Cardinality(result.datasets[2]) = n - fl

C3_Witness ==
    /\ pc = "tts_returned"
    /\ (Cardinality(df) * train_ratio[1]) % train_ratio[2] # 0
    /\ Cardinality(result.datasets[1]) >= 2

\* C4: for r0 + r1 < 1, whenever Dataset.split returns, len(train) is
\* floor(N * r0) and len(valid) differs from N * r1 by less than 1.
C4_FractionsOfWhole ==
    (pc = "split_returned" /\ SumLtOne) =>
        LET N == Cardinality(df)
            d == Cardinality(Valid) * Den - N * split_ratio[2]
        IN  /\ Cardinality(Train) = (N * split_ratio[1]) \div Den
            /\ d < Den /\ -d < Den

\* the two roundings show: train is rounded down, validation ends above N * r1
C4_Witness ==
    /\ pc = "split_returned" /\ SumLtOne
    /\ (Cardinality(df) * split_ratio[1]) % Den # 0
    /\ Cardinality(Valid) * Den > Cardinality(df) * split_ratio[2]

\* C5: a parameter group of the optimizer has the clipping value
\* config.clipping if and only if config.do_clip is True and the model does
\* not exclude the group from clipping.
C5_ClipIffDoClip ==
    pc = "optimizer_returned" =>
        \A n \in Names :
            (param_groups[n].clipping = config.clipping)
                <=> (config.do_clip /\ ~model.exclude_from_clipping[n])

StepOrder == <<"zero_grad", "forward", "loss", "backward", "scaler.step", "scaler.update">>
IsStep(e) == \E i \in 1 .. Len(StepOrder) : e[2] = StepOrder[i]
IsPrint(e) == e[2] \in {"nan!", "no longer nan"}
IsScalerStep(e) == e[2] = "scaler.step"
StepLog == SelectSeq(log, IsStep)
PrintLog == SelectSeq(log, IsPrint)
Logged(b, m) == \E i \in 1 .. Len(log) : log[i] = <<b, m>>
\* the batches whose body has run to its end
Completed == IF pc \in {"loop", "epoch_returned"} THEN batch
             ELSE IF batch = 0 THEN 0 ELSE batch - 1

\* C6: the steps of every batch run in the order zero_grad, forward, loss,
\* backward, scaler.step, scaler.update, each once per batch and batch k+1
\* after the scaler.update of batch k; when the epoch returns, scaler.step was
\* called once per delivered batch.
C6_StepOrder ==
    /\ \A i \in 1 .. Len(StepLog) :
           StepLog[i] = <<((i - 1) \div 6) + 1, StepOrder[((i - 1) % 6) + 1]>>
    /\ pc = "epoch_returned" =>
           /\ Len(StepLog) = 6 * num_batches
           /\ Len(SelectSeq(log, IsScalerStep)) = num_batches

C6_Witness ==
    /\ pc = "epoch_returned" /\ num_batches >= 2
    /\ \E b \in 1 .. num_batches : losses[b] = "nan"

\* C7: "nan!" is printed exactly at a NaN batch that follows a non-NaN batch
\* or the start of the epoch, "no longer nan" exactly at a non-NaN batch that
\* follows a NaN batch, the two messages alternate starting with "nan!", and
\* every batch of the epoch is processed whatever the losses are.
C7_NanMessages ==
    /\ \A b \in 1 .. Completed :
           /\ Logged(b, "nan!")
                  <=> (losses[b] = "nan" /\ (b = 1 \/ losses[b - 1] # "nan"))
           /\ Logged(b, "no longer nan")
                  <=> (losses[b] # "nan" /\ b > 1 /\ losses[b - 1] = "nan")
    /\ \A i \in 1 .. Len(PrintLog) :
           /\ PrintLog[i][2] = IF i % 2 = 1 THEN "nan!" ELSE "no longer nan"
           /\ PrintLog[i][1] <= Completed
           /\ \A j \in 1 .. Len(PrintLog) : i < j => PrintLog[i][1] < PrintLog[j][1]
    /\ pc = "epoch_returned" => (batch = num_batches /\ Len(losses) = num_batches)

C7_Witness ==
    /\ pc = "epoch_returned" /\ num_batches = 3
    /\ Len(PrintLog) = 3

====
